---- MODULE Spec2Model ----
(***************************************************************************)
(* Model of aql_miracosta.py: a Streamlit page that answers a question by  *)
(* an embedding call, a vector-search call with keyword re-ranking         *)
(* (hybrid_search) and a chat-completion call (generate_answer).           *)
(*                                                                         *)
(* Strings on which the code computes (the query, the passage texts, the   *)
(* keywords) are sequences of one-character strings, so that lower(),      *)
(* split() and the substring test `in` are computed and not assumed.       *)
(* Scores are counted in twentieths: 20 is 1.0 and one keyword match       *)
(* (0.1) is 2.                                                             *)
(***************************************************************************)
EXTENDS Integers, Sequences, FiniteSets

VARIABLES
    OPENAI_API_KEY,   \* TRUE iff st.secrets holds a non-empty key (line 85)
    PINECONE_API_KEY, \* TRUE iff st.secrets holds a non-empty key (line 86)
    question,         \* st.session_state.question
    pc,               \* where the script run stands
    calls,            \* outbound calls issued by the current script run
    outcomes,         \* how each of those calls ended, in order
    shown,            \* what the current script run has put on the page
    query,            \* hybrid_search's argument
    top_k,            \* hybrid_search's argument
    keywords,         \* hybrid_search's local list (lines 132-139)
    response,         \* result["matches"] as the index returned it
    ranked,           \* hybrid_search's matches after line 180
    matches,          \* what hybrid_search returned
    sources,          \* the submit handler's list of (title, url)
    answer,           \* what generate_answer returned
    crashed           \* an exception left the script uncaught

vars == <<OPENAI_API_KEY, PINECONE_API_KEY, question, pc, calls, outcomes,
          shown, query, top_k, keywords, response, ranked, matches, sources,
          answer, crashed>>

-----------------------------------------------------------------------------
(* Bounds of the model. *)

MaxMatches == 3
MaxTopK == 3

(* Constants of the program. *)

ScoreOne == 20
BoostStep == 2
DefaultTopK == 5

Min(a, b) == IF a <= b THEN a ELSE b

-----------------------------------------------------------------------------
(* String literals of the program, as character sequences. *)

W_wellness == <<"w", "e", "l", "l", "n", "e", "s", "s">>
W_health == <<"h", "e", "a", "l", "t", "h">>
W_program == <<"p", "r", "o", "g", "r", "a", "m">>
W_study == <<"s", "t", "u", "d", "y">>
W_free == <<"f", "r", "e", "e">>
W_cost == <<"c", "o", "s", "t">>
W_timelycare == <<"t", "i", "m", "e", "l", "y", "c", "a", "r", "e">>
W_services == <<"s", "e", "r", "v", "i", "c", "e", "s">>
W_certificate == <<"c", "e", "r", "t", "i", "f", "i", "c", "a", "t", "e">>
W_course == <<"c", "o", "u", "r", "s", "e">>
W_tuition == <<"t", "u", "i", "t", "i", "o", "n">>
W_financial == <<"f", "i", "n", "a", "n", "c", "i", "a", "l">>

Example1 == <<"W", "h", "o", " ", "p", "r", "o", "v", "i", "d", "e", "s", " ",
    "w", "e", "l", "l", "n", "e", "s", "s", " ", "s", "e", "r", "v", "i", "c",
    "e", "s", " ", "a", "t", " ", "M", "e", "r", "c", "e", "d", "?">>
Example2 == <<"W", "h", "a", "t", " ", "i", "s", " ", "t", "u", "i", "t", "i",
    "o", "n", " ", "a", "t", " ", "M", "e", "r", "c", "e", "d", "?">>
Example3 == <<"W", "h", "a", "t", " ", "p", "r", "o", "g", "r", "a", "m", "s",
    " ", "d", "o", "e", "s", " ", "M", "e", "r", "c", "e", "d", " ", "o", "f",
    "f", "e", "r", "?">>
Example4 == <<"H", "o", "w", " ", "l", "o", "n", "g", " ", "d", "o", "e", "s",
    " ", "i", "t", " ", "t", "a", "k", "e", " ", "t", "o", " ", "c", "o", "m",
    "p", "l", "e", "t", "e", " ", "a", " ", "p", "r", "o", "g", "r", "a", "m",
    "?">>

ExampleQuestions == <<Example1, Example2, Example3, Example4>>

EmptyString == << >>

(* What the user may type into the text field. *)
Typed1 == <<"H", "E", "A", "L", "T", "H", " ", "h", "e", "a", "l", "t", "h">>
Typed2 == <<"i", "s", " ", "i", "t", " ", " ", "f", "r", "e", "e">>
Typed3 == <<"a", " ", "a">>

TypedQuestions == {EmptyString, Typed1, Typed2, Typed3}

(* The text_content of the passages the index may return. *)
Text1 == <<"T", "i", "m", "e", "l", "y", "C", "a", "r", "e", " ", "p", "r",
    "o", "v", "i", "d", "e", "s", " ", "w", "e", "l", "l", "n", "e", "s", "s",
    " ", "s", "e", "r", "v", "i", "c", "e", "s">>
Text2 == <<"T", "u", "i", "t", "i", "o", "n", " ", "i", "s", " ", "f", "r",
    "e", "e">>
Text3 == <<"A", " ", "c", "e", "r", "t", "i", "f", "i", "c", "a", "t", "e",
    " ", "p", "r", "o", "g", "r", "a", "m">>

(* A passage of the index: its raw similarity score and its text_content   *)
(* (EmptyString also stands for a match without metadata, line 170).       *)
CandidatePool ==
    { <<10, Text1>>, <<9, Text1>>, <<19, Text2>>, <<13, Text3>>,
      <<0, EmptyString>>, <<20, EmptyString>> }

-----------------------------------------------------------------------------
(* str.lower(), str.split() and the substring test of Python. *)

UpperCase == <<"A", "B", "C", "D", "E", "F", "G", "H", "I", "J", "K", "L", "M",
    "N", "O", "P", "Q", "R", "S", "T", "U", "V", "W", "X", "Y", "Z">>
LowerCase == <<"a", "b", "c", "d", "e", "f", "g", "h", "i", "j", "k", "l", "m",
    "n", "o", "p", "q", "r", "s", "t", "u", "v", "w", "x", "y", "z">>

LowerChar(c) ==
    IF \E i \in 1..Len(UpperCase) : UpperCase[i] = c
    THEN LowerCase[CHOOSE i \in 1..Len(UpperCase) : UpperCase[i] = c]
    ELSE c

RECURSIVE LowerFrom(_, _)
LowerFrom(s, i) ==
    IF i > Len(s) THEN << >>
    ELSE <<LowerChar(s[i])>> \o LowerFrom(s, i + 1)

(* s.lower() *)
Lower(s) == LowerFrom(s, 1)

Whitespace == {" ", "\t", "\n", "\r"}

(* s.split(): the maximal runs of non-whitespace characters, in order. *)
RECURSIVE SplitFrom(_, _, _)
SplitFrom(s, i, word) ==
    IF i > Len(s)
    THEN IF word = << >> THEN << >> ELSE <<word>>
    ELSE IF s[i] \in Whitespace
         THEN IF word = << >>
              THEN SplitFrom(s, i + 1, << >>)
              ELSE <<word>> \o SplitFrom(s, i + 1, << >>)
         ELSE SplitFrom(s, i + 1, Append(word, s[i]))

Split(s) == SplitFrom(s, 1, << >>)

(* sub in s *)
Contains(sub, s) ==
    \E i \in 0..(Len(s) - Len(sub)) :
        \A j \in 1..Len(sub) : s[i + j] = sub[j]

-----------------------------------------------------------------------------
(* What the page shows (st.error, st.warning, st.markdown, st.write). *)

MsgMissingKeys == "Missing API keys. Please contact the administrator."
MsgOpenAIError == "OpenAI API error"
MsgPineconeError == "Pinecone API error"
MsgSearchError == "Search error"
MsgEnterQuestion == "Please enter a question or select an example."
MsgNoRelevant == "No relevant information found."
MsgSourcesHeading == "sources"
MsgSourceEntry == "source"
MsgErrorOccurred == "An error occurred"
MsgTryAgain == "Please try again later."
MsgErrorDetails == "Error details"

FallbackAnswer == "Sorry, I couldn't generate an answer."
ModelAnswer == "choices[0].message.content"
NoAnswer == "no answer"

(* How an outbound call may end: a 200 response with the expected payload, *)
(* a non-200 response, requests.post raising (network, timeout), a 200     *)
(* response whose payload makes response.json() or the indexing raise, and *)
(* for the embedding call a 200 response whose embedding is empty or null. *)
EmbeddingOutcomes == {"ok", "status", "exception", "malformed", "empty"}
SearchOutcomes == {"ok", "status", "exception", "malformed"}
GenerationOutcomes == {"ok", "status", "exception", "malformed"}

(* The lists of matches the index may return: candidate i is the i-th      *)
(* match of the response.                                                  *)
Responses ==
    UNION { { [i \in 1..n |-> [id |-> i, score |-> f[i][1], text |-> f[i][2]]] :
                f \in [1..n -> CandidatePool] } : n \in 0..MaxMatches }

-----------------------------------------------------------------------------
(* generate_answer as it would be if a non-200 response raised (as with    *)
(* response.raise_for_status()) instead of returning the fallback string.  *)
generate_answer_raising(outcome) ==
    CASE outcome = "ok" ->
            [raised |-> FALSE, value |-> ModelAnswer, shown |-> << >>]
      [] OTHER ->
            [raised |-> TRUE, value |-> NoAnswer, shown |-> << >>]

(* get_embedding: the value it returns, whether it raises instead, and     *)
(* what it shows.                                                          *)
get_embedding(outcome) ==
    CASE outcome = "ok" ->
            [raised |-> FALSE, value |-> "vector", shown |-> << >>]
      [] outcome = "status" ->
            [raised |-> FALSE, value |-> "None", shown |-> <<MsgOpenAIError>>]
      [] outcome = "empty" ->
            [raised |-> FALSE, value |-> "empty", shown |-> << >>]
      [] OTHER ->
            [raised |-> TRUE, value |-> "None", shown |-> << >>]

(* not embedding *)
Falsy(embedding) == embedding \in {"None", "empty"}

(* hybrid_search, lines 132-139: the keyword list. *)
ExtractKeywords(q) ==
    LET low == Lower(q)
    IN  Split(low)
        \o (IF Contains(W_wellness, low) \/ Contains(W_health, low)
            THEN <<W_timelycare, W_wellness, W_services, W_health>>
            ELSE << >>)
        \o (IF Contains(W_program, low) \/ Contains(W_study, low)
            THEN <<W_certificate, W_program, W_course>>
            ELSE << >>)
        \o (IF Contains(W_free, low) \/ Contains(W_cost, low)
            THEN <<W_tuition, W_free, W_cost, W_financial>>
            ELSE << >>)

(* line 173: sum(1 for keyword in keywords if keyword in text) *)
KeywordMatches(kws, text) ==
    Cardinality({ i \in 1..Len(kws) : Contains(kws[i], text) })

(* Line 177 as it would be without the cap. *)
BoostedScoreUncapped(score, keyword_matches) ==
    score + keyword_matches * BoostStep

(* line 177: min(match["score"] + keyword_boost, 1.0) *)
BoostedScore(score, keyword_matches) ==
    Min(score + keyword_matches * BoostStep, ScoreOne)

(* lines 170-177, one pass of the loop: the match with its score           *)
(* overwritten (keyword_matches is kept beside it as hits).                *)
BoostMatch(m, kws) ==
    CHOOSE b \in { [id |-> m.id, text |-> m.text, hits |-> keyword_matches,
                    score |-> BoostedScore(m.score, keyword_matches)] :
                      keyword_matches \in {KeywordMatches(kws, Lower(m.text))} } :
        TRUE

(* lines 169-177: every match's score is overwritten in place. *)
Boost(ms, kws) == [i \in 1..Len(ms) |-> BoostMatch(ms[i], kws)]

(* Line 180 as it would be if the list were sorted ascending and then      *)
(* reversed: among equal scores the later element comes first.             *)
InsertByScoreTiesFirst(sorted, m) ==
    LET before == SelectSeq(sorted, LAMBDA x : x.score > m.score)
        after == SelectSeq(sorted, LAMBDA x : x.score <= m.score)
    IN  before \o <<m>> \o after

(* line 180: list.sort(key=score, reverse=True), a stable sort: an element *)
(* goes behind every element whose score is greater or equal.              *)
RECURSIVE InsertByScore(_, _)
InsertByScore(sorted, m) ==
    IF sorted = << >>
    THEN <<m>>
    ELSE IF Head(sorted).score >= m.score
         THEN <<Head(sorted)>> \o InsertByScore(Tail(sorted), m)
         ELSE <<m>> \o sorted

RECURSIVE SortFrom(_, _, _)
SortFrom(ms, i, sorted) ==
    IF i > Len(ms) THEN sorted
    ELSE SortFrom(ms, i + 1, InsertByScore(sorted, ms[i]))

SortByScore(ms) == SortFrom(ms, 1, << >>)

(* Line 183 as it would be if it returned all the top_k * 2 matches that   *)
(* line 148 asks for.                                                      *)
TruncateToRequested(ms, k) == SubSeq(ms, 1, Min(2 * k, Len(ms)))

(* line 183: matches[:top_k], for top_k >= 0 *)
Truncate(ms, k) == SubSeq(ms, 1, Min(k, Len(ms)))

(* lines 168-183 *)
Rerank(ms, kws, k) == Truncate(SortByScore(Boost(ms, kws)), k)

(* hybrid_search, lines 160-187: the matches after line 180 and what is    *)
(* shown, given how the search call ended.                                 *)
SearchStep(outcome, resp, kws) ==
    CASE outcome = "ok" ->
            [shown |-> << >>, ranked |-> SortByScore(Boost(resp, kws))]
      [] outcome = "status" ->
            [shown |-> <<MsgPineconeError>>, ranked |-> << >>]
      [] OTHER ->
            [shown |-> <<MsgSearchError>>, ranked |-> << >>]

(* hybrid_search, lines 126-129: what becomes of get_embedding's result.   *)
(* The call stands outside the try of line 152, so what get_embedding      *)
(* raises leaves hybrid_search.                                            *)
EmbeddingStep(outcome) ==
    LET e == get_embedding(outcome)
    IN  [raised |-> e.raised,
         returned |-> ~e.raised /\ Falsy(e.value),
         shown |-> e.shown]

(* generate_answer, lines 212-223 *)
generate_answer(outcome) ==
    CASE outcome = "ok" ->
            [raised |-> FALSE, value |-> ModelAnswer, shown |-> << >>]
      [] outcome = "status" ->
            [raised |-> FALSE, value |-> FallbackAnswer,
             shown |-> <<MsgOpenAIError>>]
      [] OTHER ->
            [raised |-> TRUE, value |-> NoAnswer, shown |-> << >>]

-----------------------------------------------------------------------------
(* The page: one script run per event, top to bottom.                      *)

KeysPresent == OPENAI_API_KEY /\ PINECONE_API_KEY

(* line 253: st.button("Submit") or (question and not question_input) *)
Triggered(submit, q, question_input) ==
    submit \/ (q # EmptyString /\ question_input = EmptyString)

(* The script run is over: the page waits for the next event. *)
EndRun(nowShown) ==
    /\ pc' = "idle"
    /\ shown' = nowShown

(* The submit handler as it would be without the try of line 257: what is  *)
(* raised leaves the script.                                               *)
HandlerWithoutExcept(nowShown) ==
    /\ EndRun(nowShown)
    /\ crashed' = TRUE

(* lines 291-294: the submit handler's except Exception. *)
HandlerExcept(nowShown) ==
    /\ EndRun(nowShown \o <<MsgErrorOccurred, MsgTryAgain, MsgErrorDetails>>)
    /\ crashed' = FALSE

(* The submit handler as it would be without the test of line 254. *)
SubmitHandlerWithoutTest(q) ==
    /\ pc' = "embedding"
    /\ shown' = << >>
    /\ calls' = <<"embedding">>
    /\ query' = q

(* lines 254-260: the submit handler up to the first outbound call, which  *)
(* is get_embedding's request (hybrid_search, line 127).                   *)
SubmitHandler(q) ==
    IF q = EmptyString
    THEN /\ EndRun(<<MsgEnterQuestion>>)
         /\ calls' = << >>
         /\ query' = EmptyString
    ELSE /\ pc' = "embedding"
         /\ shown' = << >>
         /\ calls' = <<"embedding">>
         /\ query' = q

(* One script run from line 75 to the submit handler's first call.         *)
(* example: the example button clicked (0: none); typing: the text field   *)
(* was edited, to text; submit: the Submit button was clicked.             *)
ScriptRun(example, typing, text, submit) ==
    /\ pc = "idle"
    /\ outcomes' = << >>
    /\ keywords' = << >>
    /\ response' = << >>
    /\ ranked' = << >>
    /\ matches' = << >>
    /\ sources' = << >>
    /\ answer' = NoAnswer
    /\ crashed' = FALSE
    /\ UNCHANGED <<OPENAI_API_KEY, PINECONE_API_KEY, top_k>>
    /\ IF ~KeysPresent
       THEN \* lines 89-91: st.error, st.stop
            /\ EndRun(<<MsgMissingKeys>>)
            /\ calls' = << >>
            /\ query' = EmptyString
            /\ UNCHANGED question
       ELSE LET clicked == IF example # 0   \* lines 233-242: set_question
                           THEN ExampleQuestions[example]
                           ELSE question
                \* line 245: the widget returns what was typed, or its value
                question_input == IF typing THEN text ELSE clicked
                \* lines 248-249
                q == IF question_input # clicked THEN question_input
                     ELSE clicked
            IN  /\ question' = q
                /\ IF Triggered(submit, q, question_input)
                   THEN SubmitHandler(q)
                   ELSE /\ EndRun(<< >>)
                        /\ calls' = << >>
                        /\ query' = EmptyString

(* A rerun without any widget event. *)
Rerun == ScriptRun(0, FALSE, EmptyString, FALSE)

(* The widgets exist only when the last run came past line 91. *)
ClickExample(i) ==
    /\ KeysPresent
    /\ ScriptRun(i, FALSE, EmptyString, FALSE)

TypeQuestion(text) ==
    /\ KeysPresent
    /\ ScriptRun(0, TRUE, text, FALSE)

ClickSubmit ==
    /\ KeysPresent
    /\ ScriptRun(0, FALSE, EmptyString, TRUE)

(* Lines 260-279 as they would be without the test of line 261: the        *)
(* answer is generated whatever the search returned.                       *)
AfterSearchWithoutTest(raised, result, nowShown) ==
    IF raised
    THEN /\ HandlerExcept(nowShown)
         /\ UNCHANGED <<calls, matches, sources>>
    ELSE /\ matches' = result
         /\ crashed' = FALSE
         /\ sources' = [i \in 1..Len(result) |-> result[i].id]
         /\ calls' = Append(calls, "generation")
         /\ pc' = "generation"
         /\ shown' = nowShown

(* lines 260-279: the submit handler from hybrid_search's return (or       *)
(* raise) to the generation call.                                          *)
AfterSearch(raised, result, nowShown) ==
    IF raised
    THEN /\ HandlerExcept(nowShown)
         /\ UNCHANGED <<calls, matches, sources>>
    ELSE /\ matches' = result
         /\ crashed' = FALSE
         /\ IF result = << >>
            THEN \* lines 261-263: st.warning, st.stop
                 /\ EndRun(Append(nowShown, MsgNoRelevant))
                 /\ UNCHANGED <<calls, sources>>
            ELSE \* lines 266-279
                 /\ sources' = [i \in 1..Len(result) |-> result[i].id]
                 /\ calls' = Append(calls, "generation")
                 /\ pc' = "generation"
                 /\ shown' = nowShown

(* The embedding call ends: get_embedding from line 111, hybrid_search to  *)
(* the search call of line 153 or to its return, and then the handler.     *)
EmbeddingResponse(outcome) ==
    /\ pc = "embedding"
    /\ outcomes' = Append(outcomes, outcome)
    /\ \E e \in {EmbeddingStep(outcome)} :
           IF e.raised \/ e.returned
           THEN /\ AfterSearch(e.raised, << >>, shown \o e.shown)
                /\ UNCHANGED keywords
           ELSE /\ keywords' = ExtractKeywords(query)
                /\ calls' = Append(calls, "search")
                /\ pc' = "search"
                /\ shown' = shown \o e.shown
                /\ UNCHANGED <<matches, sources, crashed>>
    /\ UNCHANGED <<OPENAI_API_KEY, PINECONE_API_KEY, question, query, top_k,
                   response, ranked, answer>>

(* The search call ends: hybrid_search from line 160 to its return, and    *)
(* then the handler to the generation call. resp is result["matches"] of a *)
(* 200 response; any other response carries none that the code reads.      *)
SearchResponse(outcome, resp) ==
    /\ pc = "search"
    /\ outcomes' = Append(outcomes, outcome)
    /\ \E s \in {SearchStep(outcome, resp, keywords)} :
           /\ response' = IF outcome = "ok" THEN resp ELSE << >>
           /\ ranked' = s.ranked
           /\ AfterSearch(FALSE, Truncate(s.ranked, top_k), shown \o s.shown)
    /\ UNCHANGED <<OPENAI_API_KEY, PINECONE_API_KEY, question, query, top_k,
                   keywords, answer>>

(* lines 279-289: the submit handler from generate_answer's return (or     *)
(* raise) to the end of the script.                                        *)
AfterGenerate(raised, value, nowShown) ==
    IF raised
    THEN /\ HandlerExcept(nowShown)
         /\ UNCHANGED answer
    ELSE /\ answer' = value
         /\ crashed' = FALSE
         /\ EndRun(nowShown \o <<value, MsgSourcesHeading>>
                   \o [i \in 1..Len(sources) |-> MsgSourceEntry])

(* The generation call ends: generate_answer from line 218, then the       *)
(* handler.                                                                *)
GenerationResponse(outcome) ==
    /\ pc = "generation"
    /\ outcomes' = Append(outcomes, outcome)
    /\ \E g \in {generate_answer(outcome)} :
           AfterGenerate(g.raised, g.value, shown \o g.shown)
    /\ UNCHANGED <<OPENAI_API_KEY, PINECONE_API_KEY, question, calls, query,
                   top_k, keywords, response, ranked, matches, sources>>

(* The state after the first script run of a session (lines 75-91). *)
Init ==
    /\ OPENAI_API_KEY \in BOOLEAN
    /\ PINECONE_API_KEY \in BOOLEAN
    /\ question = EmptyString
    /\ pc = "idle"
    /\ calls = << >>
    /\ outcomes = << >>
    /\ shown = IF KeysPresent THEN << >> ELSE <<MsgMissingKeys>>
    /\ query = EmptyString
    /\ top_k = DefaultTopK
    /\ keywords = << >>
    /\ response = << >>
    /\ ranked = << >>
    /\ matches = << >>
    /\ sources = << >>
    /\ answer = NoAnswer
    /\ crashed = FALSE

Next ==
    \/ Rerun
    \/ \E i \in 1..Len(ExampleQuestions) : ClickExample(i)
    \/ \E text \in TypedQuestions : TypeQuestion(text)
    \/ ClickSubmit
    \/ \E outcome \in EmbeddingOutcomes : EmbeddingResponse(outcome)
    \/ \E outcome \in SearchOutcomes \ {"ok"} : SearchResponse(outcome, << >>)
    \/ \E resp \in Responses : SearchResponse("ok", resp)
    \/ \E outcome \in GenerationOutcomes : GenerationResponse(outcome)

Spec == Init /\ [][Next]_vars

-----------------------------------------------------------------------------
(* hybrid_search (lines 119-187) on its own, for any query and any top_k:  *)
(* the arguments are drawn at the start, where the function has been       *)
(* called and its embedding request (line 127) is out; one action per      *)
(* response takes it to its return.                                        *)

Queries == {ExampleQuestions[i] : i \in 1..Len(ExampleQuestions)}
           \cup TypedQuestions

InitSearch ==
    /\ OPENAI_API_KEY = TRUE
    /\ PINECONE_API_KEY = TRUE
    /\ question = EmptyString
    /\ pc = "hs_embedding"
    /\ calls = <<"embedding">>
    /\ outcomes = << >>
    /\ shown = << >>
    /\ query \in Queries
    /\ top_k \in 0..MaxTopK
    /\ keywords = << >>
    /\ response = << >>
    /\ ranked = << >>
    /\ matches = << >>
    /\ sources = << >>
    /\ answer = NoAnswer
    /\ crashed = FALSE

(* lines 127-150: from the embedding call's response to the search call,   *)
(* or out of the function.                                                 *)
SearchEmbeddingResponse(outcome) ==
    /\ pc = "hs_embedding"
    /\ outcomes' = Append(outcomes, outcome)
    /\ \E e \in {EmbeddingStep(outcome)} :
           /\ shown' = shown \o e.shown
           /\ IF e.raised \/ e.returned
              THEN /\ pc' = IF e.raised THEN "hs_raised" ELSE "hs_returned"
                   /\ UNCHANGED <<calls, keywords>>
              ELSE /\ keywords' = ExtractKeywords(query)
                   /\ calls' = Append(calls, "search")
                   /\ pc' = "hs_search"
    /\ UNCHANGED <<OPENAI_API_KEY, PINECONE_API_KEY, question, query, top_k,
                   response, ranked, matches, sources, answer, crashed>>

(* lines 160-187: from the search call's response to the return. *)
SearchSearchResponse(outcome, resp) ==
    /\ pc = "hs_search"
    /\ outcomes' = Append(outcomes, outcome)
    /\ \E s \in {SearchStep(outcome, resp, keywords)} :
           /\ shown' = shown \o s.shown
           /\ response' = IF outcome = "ok" THEN resp ELSE << >>
           /\ ranked' = s.ranked
           /\ matches' = Truncate(s.ranked, top_k)
    /\ pc' = "hs_returned"
    /\ UNCHANGED <<OPENAI_API_KEY, PINECONE_API_KEY, question, calls, query,
                   top_k, keywords, sources, answer, crashed>>

NextSearch ==
    \/ \E outcome \in EmbeddingOutcomes : SearchEmbeddingResponse(outcome)
    \/ \E outcome \in SearchOutcomes \ {"ok"} :
            SearchSearchResponse(outcome, << >>)
    \/ \E resp \in Responses : SearchSearchResponse("ok", resp)

SpecSearch == InitSearch /\ [][NextSearch]_vars

-----------------------------------------------------------------------------
(* Properties. *)

Range(seq) == {seq[i] : i \in 1..Len(seq)}

IsPrefix(s, t) == Len(s) <= Len(t) /\ \A i \in 1..Len(s) : s[i] = t[i]

PipelineOrder == <<"embedding", "search", "generation">>

(* No call of the current script run has failed. *)
AllOk == \A i \in 1..Len(outcomes) : outcomes[i] = "ok"

(* A submitted question has been processed to the end of the script run. *)
InteractionOver == pc = "idle" /\ calls # << >>

(* C1, as stated: the calls of one interaction are issued in the order     *)
(* embedding, search, generation, each at most once and none again, and    *)
(* when no stage fails all three are issued.                               *)
C1_AllThreeWhenNoFailure ==
    /\ IsPrefix(calls, PipelineOrder)
    /\ (InteractionOver /\ AllOk) => calls = PipelineOrder

(* C1, amended: the calls of one interaction are issued in the order       *)
(* embedding, search, generation, each at most once and none again; when   *)
(* no stage fails and the search returns at least one match all three are  *)
(* issued, and when it returns no match the generation call is not.        *)
C1_CallsInOrderOnce ==
    /\ IsPrefix(calls, PipelineOrder)
    /\ Len(outcomes) <= Len(calls)
    /\ (InteractionOver /\ AllOk) =>
          IF response # << >>
          THEN calls = PipelineOrder
          ELSE calls = <<"embedding", "search">>

C1_Witness ==
    /\ InteractionOver
    /\ AllOk
    /\ calls = PipelineOrder
    /\ Len(outcomes) = 3

(* C2: when the embedding call fails, by a non-200 response or by a        *)
(* malformed payload, the search call is not issued, hybrid_search returns *)
(* no match, the page shows "No relevant information found." and no        *)
(* generation call is made.                                                *)
C2_EmbeddingFailureIsNoResult ==
    (outcomes # << >> /\ outcomes[1] \in {"status", "malformed", "empty"}) =>
        /\ pc = "idle"
        /\ calls = <<"embedding">>
        /\ matches = << >>
        /\ MsgNoRelevant \in Range(shown)
        /\ MsgErrorOccurred \notin Range(shown)

(* C3: when the generation call ends with a non-200 response, the answer   *)
(* is the fallback string, the page shows it followed by the sources, and  *)
(* nothing is raised.                                                      *)
C3_GenerationFailureFallsBack ==
    (Len(outcomes) = 3 /\ outcomes[3] = "status") =>
        /\ pc = "idle"
        /\ answer = FallbackAnswer
        /\ ~crashed
        /\ Len(matches) >= 1
        /\ Len(sources) = Len(matches)
        /\ shown = <<MsgOpenAIError, FallbackAnswer, MsgSourcesHeading>>
                   \o [i \in 1..Len(matches) |-> MsgSourceEntry]

C3_Witness ==
    /\ Len(outcomes) = 3
    /\ outcomes[3] = "status"
    /\ answer = FallbackAnswer
    /\ FallbackAnswer \in Range(shown)

(* C4: Submit with an empty question shows the warning that asks for a     *)
(* question and issues no call; and no call is ever out or made while the  *)
(* question is empty.                                                      *)
C4_EmptyQuestionNoCalls ==
    /\ [][(ClickSubmit /\ question = EmptyString) =>
            (/\ pc' = "idle"
             /\ shown' = <<MsgEnterQuestion>>
             /\ calls' = << >>)]_vars
    /\ [](calls # << >> => (question # EmptyString /\ query # EmptyString))

C4_Witness ==
    /\ KeysPresent
    /\ question = EmptyString
    /\ pc = "idle"
    /\ shown = <<MsgEnterQuestion>>
    /\ calls = << >>

VisibleMessages ==
    {MsgOpenAIError, MsgPineconeError, MsgSearchError, MsgNoRelevant,
     MsgErrorOccurred}

(* C5: whichever call fails and however (status, exception, malformed      *)
(* payload), it is the last call of the script run, the run is over with a *)
(* message on the page, nothing was raised out of the handler, no call was *)
(* made twice, and Submit can be clicked again.                            *)
C5_EveryFailureEndsIdleWithMessage ==
    \A i \in 1..Len(outcomes) :
        outcomes[i] # "ok" =>
            /\ i = Len(outcomes)
            /\ Len(calls) = Len(outcomes)
            /\ IsPrefix(calls, PipelineOrder)
            /\ pc = "idle"
            /\ Range(shown) \cap VisibleMessages # {}
            /\ ~crashed
            /\ ENABLED ClickSubmit

C5_Witness ==
    /\ pc = "idle"
    /\ Len(outcomes) = 3
    /\ outcomes[3] = "malformed"
    /\ MsgErrorOccurred \in Range(shown)

(* hybrid_search has returned what it made of a 200 search response. *)
Reranked ==
    /\ pc = "hs_returned"
    /\ Len(outcomes) = 2
    /\ outcomes[2] = "ok"

(* C6: the boost, sort and truncate step applied again to what             *)
(* hybrid_search returned, with the same keywords and top_k, gives the     *)
(* same order and the same scores.                                         *)
C6_RerankIdempotent ==
    Reranked =>
        LET again == Rerank(matches, keywords, top_k)
        IN  /\ Len(again) = Len(matches)
            /\ \A i \in 1..Len(matches) :
                  /\ again[i].id = matches[i].id
                  /\ again[i].score = matches[i].score

(* The keywords as a set, that occur in the lower-cased text. *)
DistinctKeywordsIn(text) ==
    { k \in Range(keywords) : Contains(k, Lower(text)) }

(* C7: the boost of a candidate is 0.1 times the number of distinct        *)
(* keywords that occur in its lower-cased text: a keyword that is in the   *)
(* list twice counts once.                                                 *)
C7_BoostCountsDistinctKeywords ==
    \A i \in 1..Len(ranked) :
        ranked[i].hits * BoostStep
            = Cardinality(DistinctKeywordsIn(ranked[i].text)) * BoostStep

(* C8: what hybrid_search returns is sorted by boosted score, descending,  *)
(* and candidates of equal boosted score are in the order of the search    *)
(* response.                                                               *)
C8_SortedDescendingStable ==
    \A i, j \in 1..Len(matches) :
        i < j =>
            /\ matches[i].score >= matches[j].score
            /\ matches[i].score = matches[j].score
                  => matches[i].id < matches[j].id

C8_Witness ==
    /\ Reranked
    /\ matches # << >>
    /\ matches[1].id # 1
    /\ \E i, j \in 1..Len(matches) :
          /\ i < j
          /\ matches[i].score = matches[j].score
          /\ response[matches[i].id].score # response[matches[j].id].score

(* C9: the score written back to a candidate is min(raw + 0.1 x hits, 1.0),*)
(* lies in [0, 1] and is not below the raw score.                          *)
C9_BoostedScoreClamped ==
    \A i \in 1..Len(ranked) :
        LET raw == response[ranked[i].id].score
        IN  /\ ranked[i].score
                  = Min(raw + ranked[i].hits * BoostStep, ScoreOne)
            /\ 0 <= ranked[i].score
            /\ ranked[i].score <= ScoreOne
            /\ ranked[i].score >= raw

C9_Witness ==
    /\ Reranked
    /\ \E i \in 1..Len(ranked) :
          /\ ranked[i].hits > 0
          /\ response[ranked[i].id].score + ranked[i].hits * BoostStep > ScoreOne
          /\ ranked[i].score = ScoreOne
    /\ \E i \in 1..Len(ranked) :
          /\ ranked[i].hits > 0
          /\ ranked[i].score < ScoreOne

(* C10: hybrid_search returns at most min(top_k, number of candidates)     *)
(* matches, each one a candidate of the search response and none twice.    *)
C10_AtMostTopKOfTheCandidates ==
    /\ Len(matches) <= Min(top_k, Len(response))
    /\ \A i \in 1..Len(matches) :
          /\ matches[i].id \in 1..Len(response)
          /\ matches[i].text = response[matches[i].id].text
    /\ \A i, j \in 1..Len(matches) :
          i # j => matches[i].id # matches[j].id

C10_Witness ==
    /\ Reranked
    /\ 0 < top_k
    /\ top_k < Len(response)
    /\ Len(matches) = top_k

====
